---- MODULE Spec2Model ----
(***************************************************************************)
(* Model of src/src/scan.ts: scanComponents (component discovery and       *)
(* naming) and matcher (lookup by tag).                                    *)
(*                                                                         *)
(* Strings are sequences of one-character strings, so that startsWith,     *)
(* concatenation, the path functions and lodash's case conversions are     *)
(* computed character by character as the code computes them.             *)
(* The platform is POSIX (sep = "/", isWindows = FALSE).  The characters   *)
(* are ASCII letters and the separators "/", "-", ".", "_"; every          *)
(* non-letter is a word break for lodash (no digits are used).             *)
(***************************************************************************)
EXTENDS Integers, Sequences, FiniteSets

(***************************************************************************)
(* Bounds of the model                                                     *)
(***************************************************************************)
\* longest dirs list passed to scanComponents
MaxDirs == 2
\* longest list of files one glob lookup returns
MaxFiles == 2
\* longest tags list passed to matcher
MaxTags == 2
\* longest components list passed to matcher
MaxCandidates == 3

(***************************************************************************)
(* Characters and JavaScript string primitives                             *)
(***************************************************************************)
LowerChars == <<"a","b","c","d","e","f","g","h","i","j","k","l","m",
                "n","o","p","q","r","s","t","u","v","w","x","y","z">>

UpperChars == <<"A","B","C","D","E","F","G","H","I","J","K","L","M",
                "N","O","P","Q","R","S","T","U","V","W","X","Y","Z">>

isLower(ch) == \E i \in DOMAIN LowerChars : LowerChars[i] = ch

isUpper(ch) == \E i \in DOMAIN UpperChars : UpperChars[i] = ch

toLowerChar(ch) ==
  IF isUpper(ch)
    THEN LowerChars[CHOOSE i \in DOMAIN UpperChars : UpperChars[i] = ch]
    ELSE ch

toUpperChar(ch) ==
  IF isLower(ch)
    THEN UpperChars[CHOOSE i \in DOMAIN LowerChars : LowerChars[i] = ch]
    ELSE ch

\* String.prototype.toLowerCase
toLowerCase(s) == [i \in DOMAIN s |-> toLowerChar(s[i])]

\* String.prototype.startsWith
startsWith(s, p) == Len(p) <= Len(s) /\ SubSeq(s, 1, Len(p)) = p

\* String.prototype.endsWith
endsWith(s, p) == Len(p) <= Len(s) /\ SubSeq(s, Len(s) - Len(p) + 1, Len(s)) = p

\* s.slice(n): the characters after the first n-1
sliceFrom(s, n) == SubSeq(s, n, Len(s))

\* first index i >= from with s[i..] starting with pat, 0 when there is none
RECURSIVE indexOfFrom(_, _, _)
indexOfFrom(s, pat, from) ==
  IF from + Len(pat) - 1 > Len(s) THEN 0
  ELSE IF SubSeq(s, from, from + Len(pat) - 1) = pat THEN from
  ELSE indexOfFrom(s, pat, from + 1)

\* String.prototype.replace(pattern: string, replacement): first occurrence only
replaceFirst(s, pat, rep) ==
  LET i == indexOfFrom(s, pat, 1) IN
  IF i = 0 THEN s
  ELSE SubSeq(s, 1, i - 1) \o rep \o sliceFrom(s, i + Len(pat))

\* Array.prototype.join over a list of strings
RECURSIVE joinWith(_, _)
joinWith(parts, glue) ==
  IF parts = <<>> THEN <<>>
  ELSE IF Len(parts) = 1 THEN parts[1]
  ELSE parts[1] \o glue \o joinWith(Tail(parts), glue)

\* String.prototype.split on "/" (the posix half of /[\\/]/): the segments,
\* empty ones included
RECURSIVE splitSlash(_)
splitSlash(s) ==
  LET i == indexOfFrom(s, <<"/">>, 1) IN
  IF i = 0 THEN <<s>>
  ELSE <<SubSeq(s, 1, i - 1)>> \o splitSlash(sliceFrom(s, i + 1))

\* Array.prototype.filter(Boolean) on strings: the non-empty ones
filterBoolean(parts) == SelectSeq(parts, LAMBDA p : p # <<>>)

(***************************************************************************)
(* lodash: words, camelCase, kebabCase, upperFirst (scan.ts line 3)        *)
(***************************************************************************)
\* last index of the run of lower-case letters that starts at i (i-1: no run)
RECURSIVE lowerRunEnd(_, _)
lowerRunEnd(s, i) ==
  IF i <= Len(s) /\ isLower(s[i]) THEN lowerRunEnd(s, i + 1) ELSE i - 1

\* last index of the run of upper-case letters that starts at i (i-1: no run)
RECURSIVE upperRunEnd(_, _)
upperRunEnd(s, i) ==
  IF i <= Len(s) /\ isUpper(s[i]) THEN upperRunEnd(s, i + 1) ELSE i - 1

\* lodash words(): an optional capital followed by lower-case letters is a
\* word; a run of capitals is a word, without its last capital when a
\* lower-case letter follows ("XMLHttp" -> "XML", "Http"); every other
\* character separates words.
RECURSIVE wordsFrom(_, _)
wordsFrom(s, i) ==
  IF i > Len(s) THEN <<>>
  ELSE IF isLower(s[i])
    THEN LET j == lowerRunEnd(s, i)
         IN  <<SubSeq(s, i, j)>> \o wordsFrom(s, j + 1)
  ELSE IF isUpper(s[i])
    THEN IF i < Len(s) /\ isLower(s[i + 1])
           THEN LET j == lowerRunEnd(s, i + 1)
                IN  <<SubSeq(s, i, j)>> \o wordsFrom(s, j + 1)
           ELSE LET j == upperRunEnd(s, i)
                    k == IF j < Len(s) /\ isLower(s[j + 1]) THEN j - 1 ELSE j
                IN  <<SubSeq(s, i, k)>> \o wordsFrom(s, k + 1)
  ELSE wordsFrom(s, i + 1)

words(s) == wordsFrom(s, 1)

\* lodash upperFirst
upperFirst(s) ==
  IF s = <<>> THEN s ELSE <<toUpperChar(s[1])>> \o Tail(s)

\* lodash capitalize: upperFirst(toLowerCase)
capitalize(s) == upperFirst(toLowerCase(s))

\* lodash camelCase: the words in lower case, all but the first capitalized
camelCase(s) ==
  LET ws == words(s)
  IN  joinWith([i \in DOMAIN ws |->
                  IF i = 1 THEN toLowerCase(ws[i]) ELSE capitalize(ws[i])],
               <<>>)

\* lodash kebabCase: the words in lower case joined by "-"
kebabCase(s) ==
  LET ws == words(s)
  IN  joinWith([i \in DOMAIN ws |-> toLowerCase(ws[i])], <<"-">>)

\* scan.ts line 6
pascalCase(str) == upperFirst(camelCase(str))

(***************************************************************************)
(* Node's path module, posix (scan.ts line 1)                              *)
(***************************************************************************)
sep == <<"/">>

isWindows == FALSE

RECURSIVE stripTrailingSlashes(_)
stripTrailingSlashes(p) ==
  IF Len(p) > 1 /\ p[Len(p)] = "/"
    THEN stripTrailingSlashes(SubSeq(p, 1, Len(p) - 1))
    ELSE p

\* index of the last occurrence of character ch in s, 0 when there is none
RECURSIVE lastIndexOf(_, _, _)
lastIndexOf(s, ch, i) ==
  IF i = 0 THEN 0
  ELSE IF s[i] = ch THEN i
  ELSE lastIndexOf(s, ch, i - 1)

\* path.basename(p): the last segment
lastSegment(p) ==
  LET q == stripTrailingSlashes(p)
      k == lastIndexOf(q, "/", Len(q))
  IN  IF q = <<"/">> THEN <<>> ELSE sliceFrom(q, k + 1)

\* path.extname(p): from the last "." of the last segment, "" when there is
\* none or when it is the segment's first character
extname(p) ==
  LET b == lastSegment(p)
      k == lastIndexOf(b, ".", Len(b))
  IN  IF k <= 1 \/ b = <<".", ".">> THEN <<>> ELSE sliceFrom(b, k)

\* path.basename(p, ext): the last segment without a trailing ext
basename(p, ext) ==
  LET b == lastSegment(p)
  IN  IF ext # <<>> /\ b # ext /\ endsWith(b, ext)
        THEN SubSeq(b, 1, Len(b) - Len(ext))
        ELSE b

\* path.dirname(p)
dirname(p) ==
  LET q == stripTrailingSlashes(p)
      k == lastIndexOf(q, "/", Len(q))
  IN  IF k = 0 THEN <<".">>
      ELSE IF k = 1 THEN <<"/">>
      ELSE stripTrailingSlashes(SubSeq(q, 1, k - 1))

\* the segments of a path with "" and "." dropped and ".." resolved
RECURSIVE normalizeSegments(_, _, _)
normalizeSegments(segs, acc, isAbsolute) ==
  IF segs = <<>> THEN acc
  ELSE LET h == Head(segs) IN
    IF h = <<>> \/ h = <<".">>
      THEN normalizeSegments(Tail(segs), acc, isAbsolute)
    ELSE IF h = <<".", ".">>
      THEN IF acc # <<>> /\ acc[Len(acc)] # <<".", ".">>
             THEN normalizeSegments(Tail(segs), SubSeq(acc, 1, Len(acc) - 1), isAbsolute)
           ELSE IF isAbsolute
             THEN normalizeSegments(Tail(segs), acc, isAbsolute)
           ELSE normalizeSegments(Tail(segs), Append(acc, h), isAbsolute)
    ELSE normalizeSegments(Tail(segs), Append(acc, h), isAbsolute)

\* path.normalize(p)
normalize(p) ==
  LET isAbsolute == p # <<>> /\ p[1] = "/"
      trailing   == p # <<>> /\ p[Len(p)] = "/"
      body == joinWith(normalizeSegments(splitSlash(p), <<>>, isAbsolute), <<"/">>)
  IN  IF p = <<>> THEN <<".">>
      ELSE IF body = <<>> THEN (IF isAbsolute THEN <<"/">> ELSE IF trailing THEN <<".", "/">> ELSE <<".">>)
      ELSE (IF isAbsolute THEN <<"/">> ELSE <<>>) \o body \o (IF trailing THEN <<"/">> ELSE <<>>)

\* path.join(a, b): the non-empty arguments joined by "/" and normalized
join(a, b) ==
  IF a = <<>> THEN normalize(b)
  ELSE IF b = <<>> THEN normalize(a)
  ELSE normalize(a \o <<"/">> \o b)

\* length of the longest common prefix of two lists of segments
RECURSIVE commonLength(_, _)
commonLength(xs, ys) ==
  IF xs = <<>> \/ ys = <<>> \/ Head(xs) # Head(ys) THEN 0
  ELSE 1 + commonLength(Tail(xs), Tail(ys))

\* path.relative(from, to), both resolved against the same working directory
relative(from, to) ==
  LET fs == normalizeSegments(splitSlash(from), <<>>, TRUE)
      ts == normalizeSegments(splitSlash(to), <<>>, TRUE)
      n  == commonLength(fs, ts)
      up == [i \in 1..(Len(fs) - n) |-> <<".", ".">>]
  IN  joinWith(up \o SubSeq(ts, n + 1, Len(ts)), <<"/">>)

(***************************************************************************)
(* scan.ts: constants and pure helpers                                     *)
(***************************************************************************)
LAZY_PREFIX == <<"l","a","z","y">>

\* String.prototype.replace(/s$/, '') (line 68)
stripTrailingS(s) ==
  IF s # <<>> /\ s[Len(s)] = "s" THEN SubSeq(s, 1, Len(s) - 1) ELSE s

\* String.prototype.replace(/^\//, '') (line 84)
stripLeadingSlash(s) ==
  IF s # <<>> /\ s[1] = "/" THEN Tail(s) ELSE s

\* String.prototype.replace(/\\/g, x) (lines 84 and 89): every backslash
\* replaced by the string x
RECURSIVE replaceBackslashes(_, _)
replaceBackslashes(s, x) ==
  IF s = <<>> THEN <<>>
  ELSE (IF Head(s) = "\\" THEN x ELSE <<Head(s)>>) \o replaceBackslashes(Tail(s), x)

\* number of non-empty segments of a directory's path (line 32)
pathDepth(path) == Len(filterBoolean(splitSlash(path)))

\* the comparator handed to Array.prototype.sort (lines 31-33): negative when
\* a sorts before b
sortDirsByPathLength(a, b) == pathDepth(b.path) - pathDepth(a.path)

\* x inserted before the elements it does not follow (a sort that reverses
\* the directories of one depth)
RECURSIVE insertBeforeEqual(_, _)
insertBeforeEqual(sorted, x) ==
  IF sorted = <<>> THEN <<x>>
  ELSE IF sortDirsByPathLength(x, Head(sorted)) <= 0
    THEN <<x>> \o sorted
    ELSE <<Head(sorted)>> \o insertBeforeEqual(Tail(sorted), x)

\* x inserted into a list sorted by cmp, after the elements it does not
\* precede (a stable insertion)
RECURSIVE insertSorted(_, _)
insertSorted(sorted, x) ==
  IF sorted = <<>> THEN <<x>>
  ELSE IF sortDirsByPathLength(x, Head(sorted)) < 0
    THEN <<x>> \o sorted
    ELSE <<Head(sorted)>> \o insertSorted(Tail(sorted), x)

\* line 48 without the sort: the directories in the caller's order
sortDirsNot(ds) == ds

\* dirs.sort(sortDirsByPathLength) (line 48): Array.prototype.sort is stable
RECURSIVE sortDirs(_)
sortDirs(ds) ==
  IF ds = <<>> THEN <<>>
  ELSE insertSorted(sortDirs(SubSeq(ds, 1, Len(ds) - 1)), ds[Len(ds)])

\* prefixComponent (lines 35-41): prefix = '' when undefined; both tests are
\* against the prefix as written, the prepended forms are case-converted
prefixComponent(prefix, c) ==
  [c EXCEPT
     !.pascalName = IF startsWith(c.pascalName, prefix)
                      THEN c.pascalName
                      ELSE pascalCase(prefix) \o c.pascalName,
     !.kebabName  = IF startsWith(c.kebabName, prefix)
                      THEN c.kebabName
                      ELSE kebabCase(prefix) \o <<"-">> \o c.kebabName]

\* the import and asyncImport snippets are templates over filePath, export
\* and chunkName; a snippet is the record of its template and of what fills
\* its holes.  kind "empty" is the empty string.
EmptySnippet ==
  [kind |-> "empty", filePath |-> <<>>, export |-> "", chunkName |-> <<>>]

\* `require('${filePath}').${export}` (line 109)
requireSnippet(c) ==
  [kind |-> "require", filePath |-> c.filePath, export |-> c.export,
   chunkName |-> <<>>]

\* `function () { return import('${filePath}' /* webpackChunkName:
\* "${chunkName}" */).then(...m['${export}'] || m ) }` (line 110)
lazyImportSnippet(c) ==
  [kind |-> "import", filePath |-> c.filePath, export |-> c.export,
   chunkName |-> c.chunkName]

\* a snippet written by an extendComponent hook
CustomSnippet(k) ==
  [kind |-> k, filePath |-> <<>>, export |-> "", chunkName |-> <<>>]

\* a || b on snippets: the empty string is falsy
orElse(a, b) == IF a.kind # "empty" THEN a ELSE b

\* Boolean(global) (line 102) of undefined | false | true | 'dev'
ToBoolean(g) == g \in {"true", "dev"}

\* lines 62-70 with line 67 taking the folder's own name
resolveComponentNameFolder(path, filePath) ==
  LET componentName == pascalCase(basename(filePath, extname(filePath)))
      parentDirName == pascalCase(basename(dirname(filePath), <<>>))
      pathPrefix    == pascalCase(relative(path, dirname(filePath)))
  IN  IF componentName \in {<<"I","n","d","e","x">>, parentDirName}
        THEN parentDirName
      ELSE IF ~startsWith(componentName, stripTrailingS(pathPrefix))
        THEN pathPrefix \o sep \o componentName
      ELSE componentName

\* lines 62-70 with line 68 comparing against pathPrefix as it is
resolveComponentNamePlural(path, filePath) ==
  LET componentName == pascalCase(basename(filePath, extname(filePath)))
      parentDirName == pascalCase(basename(dirname(filePath), <<>>))
      pathPrefix    == pascalCase(relative(path, dirname(filePath)))
  IN  IF componentName \in {<<"I","n","d","e","x">>, parentDirName}
        THEN pathPrefix
      ELSE IF ~startsWith(componentName, pathPrefix)
        THEN pathPrefix \o sep \o componentName
      ELSE componentName

\* lines 62-70: the component name of filePath found under the directory path
resolveComponentName(path, filePath) ==
  LET componentName == pascalCase(basename(filePath, extname(filePath)))
      parentDirName == pascalCase(basename(dirname(filePath), <<>>))
      pathPrefix    == pascalCase(relative(path, dirname(filePath)))
  IN  IF componentName \in {<<"I","n","d","e","x">>, parentDirName}
        THEN pathPrefix
      ELSE IF ~startsWith(componentName, stripTrailingS(pathPrefix))
        THEN pathPrefix \o sep \o componentName
      ELSE componentName

\* lines 82-103: the draft Component of a file, prefixed with the
\* directory's prefix
draftComponent(dir, srcRoot, joined, componentName) ==
  LET pascalName == pascalCase(componentName)
      kebabName  == kebabCase(componentName)
      shortPath  == stripLeadingSlash(
                      replaceBackslashes(replaceFirst(joined, srcRoot, <<>>), <<"/">>))
      chunk      == replaceFirst(shortPath, extname(shortPath), <<>>)
      filePath   == IF isWindows
                      THEN replaceBackslashes(joined, <<"\\", "\\">>)
                      ELSE joined
      chunkName  == IF isWindows
                      THEN replaceFirst(chunk, <<"/">>, <<"_">>)
                      ELSE chunk
  IN  prefixComponent(dir.prefix,
        [filePath    |-> filePath,
         pascalName  |-> pascalName,
         kebabName   |-> kebabName,
         chunkName   |-> chunkName,
         shortPath   |-> shortPath,
         import      |-> EmptySnippet,
         asyncImport |-> EmptySnippet,
         export      |-> "default",
         async       |-> "undefined",
         global      |-> ToBoolean(dir.global)])

\* what an extendComponent hook of each kind returns for the draft c; kind
\* "void" returns nothing, which is modelled as the marker record
\* [void |-> TRUE]
hookResult(kind, c) ==
  CASE kind = "rename" ->
         [c EXCEPT !.pascalName = <<"X">> \o c.pascalName,
                   !.kebabName  = <<"x","-">> \o c.kebabName,
                   !.filePath   = c.filePath \o <<".","j","s">>,
                   !.chunkName  = <<"c","h","u","n","k">>,
                   !.export     = "named",
                   !.global     = ~c.global]
    [] kind = "snippets" ->
         [c EXCEPT !.import      = CustomSnippet("customImport"),
                   !.asyncImport = CustomSnippet("customAsyncImport")]
    [] OTHER -> c

\* line 106 with a hook whose failure is swallowed
rejectsNever(dir) == FALSE

\* line 106: the hook of dir throws, or returns a promise that rejects
rejects(dir) == dir.extendComponent = "throw"

\* lines 105-107 with the hook's record laid over the draft: the draft's
\* names are kept
extendedMerge(dir, c) ==
  IF dir.extendComponent \in {"rename", "snippets"}
    THEN [hookResult(dir.extendComponent, c) EXCEPT
            !.pascalName = c.pascalName, !.kebabName = c.kebabName]
    ELSE c

\* lines 105-107: _c after the hook: (await extendComponent(_c)) || _c
extended(dir, c) ==
  IF dir.extendComponent \in {"rename", "snippets"}
    THEN hookResult(dir.extendComponent, c)
    ELSE c

\* lines 112-115: the eager Component
eagerComponent(c) == [c EXCEPT !.import = orElse(c.import, requireSnippet(c))]

\* lines 117-121 without async: true
lazyComponentNotAsync(c) ==
  prefixComponent(LAZY_PREFIX,
    [c EXCEPT !.import = orElse(c.asyncImport, lazyImportSnippet(c))])

\* lines 117-121: the lazy Component
lazyComponent(c) ==
  prefixComponent(LAZY_PREFIX,
    [c EXCEPT !.async = "true",
              !.import = orElse(c.asyncImport, lazyImportSnippet(c))])

(***************************************************************************)
(* Inputs: file trees and the ScanDir records configured over them         *)
(***************************************************************************)
\* a ScanDir (lines 22-29).  prefix <<>> is an unset prefix (line 35 turns
\* undefined into ''); pattern and ignore only select what the glob lookup
\* returns, which Glob chooses.
ScanDir(path, prefix, global, hook) ==
  [path |-> path, prefix |-> prefix, global |-> global, extendComponent |-> hook]

PlainDir(path) == ScanDir(path, <<>>, "undefined", "none")

\* nested and sibling roots; one of the deeper ones carries a prefix, a
\* global flag and a hook
NestTree ==
  [srcDir |-> <<"c">>,
   fs     |-> {<<"c","/","u","i","/","B","t","n",".","v","u","e">>, <<"c","/","u","i","-","k","i","t","/","B","t","n",".","v","u","e">>, <<"c","/","B","t","n",".","v","u","e">>},
   dirs   |-> {PlainDir(<<"c">>),
               ScanDir(<<"c","/","u","i">>, <<"u","i">>, "dev", "rename"),
               PlainDir(<<"c","/","u","i","-","k","i","t">>)}]

\* a folder Foo/Bar with an index file, a file named after the folder and
\* another file, scanned from above Foo
FolderTree ==
  [srcDir |-> <<"c">>,
   fs     |-> {<<"c","/","F","o","o","/","B","a","r","/","i","n","d","e","x",".","j","s">>, <<"c","/","F","o","o","/","B","a","r","/","B","a","r",".","v","u","e">>, <<"c","/","F","o","o","/","B","a","r","/","B","a","z",".","v","u","e">>},
   dirs   |-> {PlainDir(<<"c">>)}]

\* the same folder scanned from Foo
FooTree ==
  [srcDir |-> <<"c">>,
   fs     |-> {<<"c","/","F","o","o","/","B","a","r","/","i","n","d","e","x",".","j","s">>, <<"c","/","F","o","o","/","B","a","r","/","B","a","r",".","v","u","e">>, <<"c","/","F","o","o","/","B","a","r","/","B","a","z",".","v","u","e">>},
   dirs   |-> {PlainDir(<<"c","/","F","o","o">>)}]

\* two names that meet once the path is flattened
FlatTree ==
  [srcDir |-> <<>>,
   fs     |-> {<<"c","/","F","o","o","/","B","a","r","/","B","a","z",".","v","u","e">>, <<"c","/","F","o","o","B","a","r","B","a","z",".","v","u","e">>},
   dirs   |-> {PlainDir(<<"c">>), ScanDir(<<"c">>, <<>>, "true", "throw")}]

\* a plural folder: one file that repeats the folder's name, one that does not
PluralTree ==
  [srcDir |-> <<"c">>,
   fs     |-> {<<"c","/","F","o","o","s","/","F","o","o","Q","u","x",".","v","u","e">>, <<"c","/","F","o","o","s","/","Q","u","x",".","v","u","e">>},
   dirs   |-> {PlainDir(<<"c">>), ScanDir(<<"c">>, <<>>, "false", "void")}]

\* a directory prefix, and a name that begins with it; a hook that writes
\* its own snippets
PrefixTree ==
  [srcDir |-> <<"c">>,
   fs     |-> {<<"c","/","H","e","a","d","e","r",".","v","u","e">>, <<"c","/","a","p","p","/","H","e","a","d","e","r",".","v","u","e">>},
   dirs   |-> {ScanDir(<<"c">>, <<"a","p","p">>, "undefined", "none"),
               ScanDir(<<"c">>, <<>>, "true", "snippets")}]

\* a name that begins with the lazy marker
LazyTree ==
  [srcDir |-> <<"c">>,
   fs     |-> {<<"c","/","H","e","a","d","e","r",".","v","u","e">>, <<"c","/","L","a","z","y","H","e","a","d","e","r",".","v","u","e">>},
   dirs   |-> {PlainDir(<<"c">>)}]

\* an index file and a file named after the root's folder, both directly in
\* the scan root
RootTree ==
  [srcDir |-> <<"c">>,
   fs     |-> {<<"c","/","i","n","d","e","x",".","v","u","e">>, <<"c","/","c",".","v","u","e">>},
   dirs   |-> {PlainDir(<<"c">>)}]

Trees ==
  {NestTree, FolderTree, FooTree, FlatTree, PluralTree, PrefixTree, LazyTree,
   RootTree}

\* the lists without repetition of at most n elements of S
ListsUpTo(S, n) ==
  UNION {{l \in [1..k -> S] : \A i, j \in 1..k : i # j => l[i] # l[j]} : k \in 0..n}

\* the lists of at most n elements of S
SeqsUpTo(S, n) == UNION {[1..k -> S] : k \in 0..n}

\* f lies below the directory path
isUnder(f, path) == startsWith(f, stripTrailingSlashes(path) \o <<"/">>)

\* what globby(pattern, { cwd: path, ignore }) may return (line 51): paths
\* relative to path of files below it, each once, in any order
GlobResults(tree, path) ==
  ListsUpTo({relative(path, f) : f \in {g \in tree : isUnder(g, path)}}, MaxFiles)

(***************************************************************************)
(* State                                                                   *)
(***************************************************************************)
VARIABLES
  fs,            \* the files on disk
  srcDir,        \* scanComponents' second argument
  input,         \* the dirs list as the caller built it, before the call
  dirs,          \* the caller's dirs array (line 48 sorts it in place)
  pc,            \* scanComponents: "sort" | "glob" | "file" | "return" |
                 \* "done" | "failed"; matcher: "matcher" | "matched"
  di,            \* index in dirs of the directory being scanned
  files,         \* the glob result of that directory
  fi,            \* index in files of the next file
  components,    \* line 44
  filePaths,     \* line 45
  scannedPaths,  \* line 46
  resolvedNames, \* line 49: the set of [name, filePath] entries of the Map
  warnings,      \* what console.warn was called with (line 74)
  log,           \* history: what each loop iteration did with its file
  returned,      \* the value the promise resolved with
  error,         \* what the promise rejected with: "none" | "glob" | "hook"
  other,         \* the locals of the caller's other scanComponents call
  globs,         \* what the glob lookup answered, per ScanDir, so far
  overlapped,    \* history: the other call was made during a run
  tags,          \* matcher's first argument
  candidates,    \* matcher's second argument
  matches        \* matcher's return value

vars == <<fs, srcDir, input, dirs, pc, di, files, fi, components, filePaths,
          scannedPaths, resolvedNames, warnings, log, returned, error, other,
          globs, overlapped, tags, candidates, matches>>

matcherVars == <<tags, candidates, matches>>

callVars == <<other, globs, overlapped>>

\* lines 44-46 keeping the claimed paths and the scanned roots of the run
\* in progress
NewCallKeeping ==
  [pc |-> "sort", di |-> 1, files |-> <<>>, fi |-> 1, components |-> <<>>,
   filePaths |-> filePaths, scannedPaths |-> scannedPaths,
   resolvedNames |-> {}, warnings |-> <<>>, log |-> <<>>,
   returned |-> <<>>, error |-> "none"]

\* the locals of scanComponents at a call (lines 43-46): the list, the set
\* and the roots are created empty
NewCall ==
  [pc |-> "sort", di |-> 1, files |-> <<>>, fi |-> 1, components |-> <<>>,
   filePaths |-> {}, scannedPaths |-> <<>>, resolvedNames |-> {},
   warnings |-> <<>>, log |-> <<>>, returned |-> <<>>, error |-> "none"]

\* a call that has not been made
Uncalled == [NewCall EXCEPT !.pc = "uncalled"]

\* the state at the call of scanComponents(dirs, srcDir)
Init ==
  /\ \E tree \in Trees :
       /\ fs = tree.fs
       /\ srcDir = tree.srcDir
       /\ input \in SeqsUpTo(tree.dirs, MaxDirs)
  /\ dirs = input
  /\ pc = "sort"
  /\ di = 1
  /\ files = <<>>
  /\ fi = 1
  /\ components = <<>>
  /\ filePaths = {}
  /\ scannedPaths = <<>>
  /\ resolvedNames = {}
  /\ warnings = <<>>
  /\ log = <<>>
  /\ returned = <<>>
  /\ error = "none"
  /\ other = Uncalled
  /\ globs = {}
  /\ overlapped = FALSE
  /\ tags = <<>>
  /\ candidates = <<>>
  /\ matches = <<>>

(***************************************************************************)
(* scanComponents (lines 43-128)                                           *)
(***************************************************************************)
\* line 54: scannedPaths.find(d => filePath.startsWith(d))
isScanned(filePath, scanned) ==
  \E k \in DOMAIN scanned : startsWith(filePath, scanned[k])

\* lines 54-58 with neither test
skipNothing(filePath, scanned, claimed) == FALSE

\* lines 54-58: the file is passed over
skipFile(filePath, scanned, claimed) ==
  isScanned(filePath, scanned) \/ filePath \in claimed

\* line 72: resolvedNames.has(componentName)
hasName(names, componentName) == \E e \in names : e.name = componentName

\* line 76: resolvedNames.get(componentName)
getName(names, componentName) ==
  (CHOOSE e \in names : e.name = componentName).filePath

\* line 80: resolvedNames.set(componentName, filePath)
setName(names, componentName, filePath) ==
  {e \in names : e.name # componentName}
    \cup {[name |-> componentName, filePath |-> filePath]}

\* line 48: dirs.sort(...) sorts the caller's array in place, and the loop
\* starts on it
SortDirs ==
  /\ pc = "sort"
  /\ dirs' = sortDirs(dirs)
  /\ pc' = IF dirs = <<>> THEN "return" ELSE "glob"
  /\ UNCHANGED <<fs, srcDir, input, di, files, fi, components, filePaths,
                 scannedPaths, resolvedNames, warnings, log, returned, error>>
  /\ UNCHANGED matcherVars
  /\ UNCHANGED callVars

\* lines 48-51: the next directory: a fresh resolvedNames and the glob
\* lookup, which resolves with a list of files or rejects
Glob ==
  /\ pc = "glob"
  /\ resolvedNames' = {}
  /\ \/ /\ files' \in GlobResults(fs, dirs[di].path)
        /\ pc' = "file"
        /\ UNCHANGED error
     \/ /\ files' = <<>>
        /\ pc' = "failed"
        /\ error' = "glob"
  /\ fi' = 1
  /\ UNCHANGED <<fs, srcDir, input, dirs, di, components, filePaths,
                 scannedPaths, warnings, log, returned>>
  /\ UNCHANGED matcherVars
  /\ UNCHANGED callVars

\* lines 51-122: one iteration of the inner loop, on files[fi]
ProcessFile ==
  /\ pc = "file"
  /\ fi <= Len(files)
  /\ LET dir      == dirs[di]
         filePath == join(dir.path, files[fi])
         componentName == resolveComponentName(dir.path, filePath)
         draft    == draftComponent(dir, srcDir, filePath, componentName)
         c        == extended(dir, draft)
         entry(outcome) ==
           [dir |-> di, path |-> dir.path, file |-> filePath,
            name |-> componentName, outcome |-> outcome,
            at |-> Len(components)]
     IN
       IF skipFile(filePath, scannedPaths, filePaths)
         THEN \* lines 54-58: continue
           /\ log' = Append(log, entry("skipped"))
           /\ fi' = fi + 1
           /\ UNCHANGED <<pc, components, filePaths, resolvedNames, warnings,
                          error>>
       ELSE IF hasName(resolvedNames, componentName)
         THEN \* lines 59, 72-78: claimed, warned about, dropped
           /\ filePaths' = filePaths \cup {filePath}
           /\ warnings' = Append(warnings,
                [name |-> componentName, filePath |-> filePath,
                 first |-> getName(resolvedNames, componentName)])
           /\ log' = Append(log, entry("dropped"))
           /\ fi' = fi + 1
           /\ UNCHANGED <<pc, components, resolvedNames, error>>
       ELSE IF rejects(dir)
         THEN \* line 106: the hook throws or rejects, and so does the run
           /\ filePaths' = filePaths \cup {filePath}
           /\ resolvedNames' = setName(resolvedNames, componentName, filePath)
           /\ log' = Append(log, entry("threw"))
           /\ pc' = "failed"
           /\ error' = "hook"
           /\ UNCHANGED <<fi, components, warnings>>
       ELSE \* lines 59, 80-121: the eager and the lazy Component are appended
           /\ filePaths' = filePaths \cup {filePath}
           /\ resolvedNames' = setName(resolvedNames, componentName, filePath)
           /\ components' = components \o <<eagerComponent(c), lazyComponent(c)>>
           /\ log' = Append(log, entry("emitted"))
           /\ fi' = fi + 1
           /\ UNCHANGED <<pc, warnings, error>>
  /\ UNCHANGED <<fs, srcDir, input, dirs, di, files, scannedPaths, returned>>
  /\ UNCHANGED matcherVars
  /\ UNCHANGED callVars

\* line 124: the directory is scanned; on to the next one
EndDir ==
  /\ pc = "file"
  /\ fi > Len(files)
  /\ scannedPaths' = Append(scannedPaths, dirs[di].path)
  /\ di' = di + 1
  /\ pc' = IF di < Len(dirs) THEN "glob" ELSE "return"
  /\ UNCHANGED <<fs, srcDir, input, dirs, files, fi, components, filePaths,
                 resolvedNames, warnings, log, returned, error>>
  /\ UNCHANGED matcherVars
  /\ UNCHANGED callVars

\* line 127: return components
Return ==
  /\ pc = "return"
  /\ returned' = components
  /\ pc' = "done"
  /\ UNCHANGED <<fs, srcDir, input, dirs, di, files, fi, components,
                 filePaths, scannedPaths, resolvedNames, warnings, log, error>>
  /\ UNCHANGED matcherVars
  /\ UNCHANGED callVars

Next == SortDirs \/ Glob \/ ProcessFile \/ EndDir \/ Return

Spec == Init /\ [][Next]_vars

(***************************************************************************)
(* Two calls of scanComponents by one caller, on the same dirs array and   *)
(* with the glob lookups answering the same; a call runs until it awaits   *)
(* (lines 51, 106), and the caller or the other call runs meanwhile        *)
(***************************************************************************)
\* the locals of the call that is running
Locals ==
  [pc |-> pc, di |-> di, files |-> files, fi |-> fi,
   components |-> components, filePaths |-> filePaths,
   scannedPaths |-> scannedPaths, resolvedNames |-> resolvedNames,
   warnings |-> warnings, log |-> log, returned |-> returned,
   error |-> error]

\* the call with locals l runs next
Resume(l) ==
  /\ pc' = l.pc
  /\ di' = l.di
  /\ files' = l.files
  /\ fi' = l.fi
  /\ components' = l.components
  /\ filePaths' = l.filePaths
  /\ scannedPaths' = l.scannedPaths
  /\ resolvedNames' = l.resolvedNames
  /\ warnings' = l.warnings
  /\ log' = l.log
  /\ returned' = l.returned
  /\ error' = l.error

\* the running call has given up control: it awaits the glob lookup (line
\* 51) or a hook (line 106), or its promise is settled
Awaiting ==
  \/ pc \in {"glob", "done", "failed"}
  \/ /\ pc = "file"
     /\ fi <= Len(files)
     /\ dirs[di].extendComponent # "none"

\* the directories the two calls are made on
RunTrees == {NestTree, FolderTree, FlatTree}

InitRuns ==
  /\ Init
  /\ \E tree \in RunTrees : fs = tree.fs /\ srcDir = tree.srcDir

\* lines 48-51 when the lookup answers what it answered for this ScanDir
\* before, if it was asked
GlobAgain ==
  /\ pc = "glob"
  /\ resolvedNames' = {}
  /\ \E answer \in
         IF \E g \in globs : g.dir = dirs[di]
           THEN {g \in globs : g.dir = dirs[di]}
           ELSE {[dir |-> dirs[di], ok |-> TRUE, files |-> l] :
                   l \in GlobResults(fs, dirs[di].path)}
                \cup {[dir |-> dirs[di], ok |-> FALSE, files |-> <<>>]} :
       /\ globs' = globs \cup {answer}
       /\ files' = answer.files
       /\ pc' = IF answer.ok THEN "file" ELSE "failed"
       /\ error' = IF answer.ok THEN error ELSE "glob"
  /\ fi' = 1
  /\ UNCHANGED <<fs, srcDir, input, dirs, di, components, filePaths,
                 scannedPaths, warnings, log, returned>>
  /\ UNCHANGED <<other, overlapped>>
  /\ UNCHANGED matcherVars

\* the caller calls scanComponents(dirs, srcDir) again, on the same array
Call ==
  /\ other.pc = "uncalled"
  /\ Awaiting
  /\ other' = Locals
  /\ Resume(NewCall)
  /\ overlapped' = (pc \notin {"done", "failed"})
  /\ UNCHANGED <<fs, srcDir, input, dirs, globs>>
  /\ UNCHANGED matcherVars

\* the other call's await is over and it runs on
Switch ==
  /\ other.pc \in {"glob", "file"}
  /\ Awaiting
  /\ other' = Locals
  /\ Resume(other)
  /\ UNCHANGED <<fs, srcDir, input, dirs, globs, overlapped>>
  /\ UNCHANGED matcherVars

NextRuns ==
  SortDirs \/ GlobAgain \/ ProcessFile \/ EndDir \/ Return \/ Call \/ Switch

SpecRuns == InitRuns /\ [][NextRuns]_vars

(***************************************************************************)
(* matcher (lines 130-136)                                                 *)
(***************************************************************************)
\* line 132: [pascalName, kebabName].includes(tag)
namedBy(c, tag) == c.pascalName = tag \/ c.kebabName = tag

\* line 132: components.find(...): the index of the first Component named by
\* tag, 0 for undefined
RECURSIVE findFrom(_, _, _)
findFrom(list, tag, i) ==
  IF i > Len(list) THEN 0
  ELSE IF namedBy(list[i], tag) THEN i
  ELSE findFrom(list, tag, i + 1)

\* line 132 searching from the end
RECURSIVE findLastFrom(_, _, _)
findLastFrom(list, tag, i) ==
  IF i > Len(list) THEN 0
  ELSE LET later == findLastFrom(list, tag, i + 1)
       IN  IF later # 0 THEN later
           ELSE IF namedBy(list[i], tag) THEN i
           ELSE 0

find(list, tag, i) == findFrom(list, tag, i)

\* lines 131-135: tags.reduce(..., []), the accumulator being acc
RECURSIVE reduceTags(_, _, _)
reduceTags(tagList, list, acc) ==
  IF tagList = <<>> THEN acc
  ELSE LET match == find(list, Head(tagList), 1)
       IN  reduceTags(Tail(tagList), list,
                      IF match # 0 THEN Append(acc, list[match]) ELSE acc)

matcher(tagList, list) == reduceTags(tagList, list, <<>>)

\* the Components scanComponents makes of one file
componentsOf(dir, srcRoot, filePath) ==
  LET c == extended(dir,
             draftComponent(dir, srcRoot, filePath,
                            resolveComponentName(dir.path, filePath)))
  IN  <<eagerComponent(c), lazyComponent(c)>>

\* Components to look up: those of Header.vue and of LazyHeader.vue, which
\* share names
MatchComponents ==
  LET a == componentsOf(PlainDir(<<"c">>), <<"c">>, <<"c","/","H","e","a","d","e","r",".","v","u","e">>)
      b == componentsOf(PlainDir(<<"c">>), <<"c">>, <<"c","/","L","a","z","y","H","e","a","d","e","r",".","v","u","e">>)
  IN  {a[1], a[2], b[1], b[2]}

MatchTags ==
  {<<"H","e","a","d","e","r">>, <<"h","e","a","d","e","r">>, <<"L","a","z","y","H","e","a","d","e","r">>, <<"l","a","z","y","-","h","e","a","d","e","r">>, <<"m","i","s","s","i","n","g","-","t","a","g">>}

\* the state at a call of matcher(tags, components)
InitMatcher ==
  /\ tags \in SeqsUpTo(MatchTags, MaxTags)
  /\ candidates \in SeqsUpTo(MatchComponents, MaxCandidates)
  /\ matches = <<>>
  /\ pc = "matcher"
  /\ fs = {}
  /\ srcDir = <<>>
  /\ input = <<>>
  /\ dirs = <<>>
  /\ di = 1
  /\ files = <<>>
  /\ fi = 1
  /\ components = <<>>
  /\ filePaths = {}
  /\ scannedPaths = <<>>
  /\ resolvedNames = {}
  /\ warnings = <<>>
  /\ log = <<>>
  /\ returned = <<>>
  /\ error = "none"
  /\ other = Uncalled
  /\ globs = {}
  /\ overlapped = FALSE

\* lines 130-136: the call; reduce, find, includes and push (on the fresh
\* accumulator) leave both arguments as they are
Matcher ==
  /\ pc = "matcher"
  /\ matches' = matcher(tags, candidates)
  /\ pc' = "matched"
  /\ UNCHANGED <<tags, candidates>>
  /\ UNCHANGED <<fs, srcDir, input, dirs, di, files, fi, components,
                 filePaths, scannedPaths, resolvedNames, warnings, log, returned,
                 error>>
  /\ UNCHANGED callVars

NextMatcher == Matcher

SpecMatcher == InitMatcher /\ [][NextMatcher]_vars

(***************************************************************************)
(* Vocabulary of the properties                                            *)
(***************************************************************************)
\* the iterations of the inner loop so far that ended as outcome
Iterations(outcome) == {k \in DOMAIN log : log[k].outcome = outcome}

\* the eager and the lazy Component appended by iteration k (an emitted one)
EagerOf(k) == components[log[k].at + 1]

LazyOf(k) == components[log[k].at + 2]

\* the ScanDir iteration k ran under
DirOf(k) == dirs[log[k].dir]

\* no directory of the call has an extendComponent hook
NoHook == \A d \in DOMAIN input : input[d].extendComponent = "none"

\* iteration k ran under a directory with neither prefix nor hook
PlainIteration(k) ==
  DirOf(k).prefix = <<>> /\ DirOf(k).extendComponent = "none"

(***************************************************************************)
(* C1: in the list of one scanComponents run, without hooks, no two        *)
(* Components share a pascalName.                                          *)
(* The code does not keep it: resolvedNames is per directory and keyed by  *)
(* the unflattened name, and the lazy name of one file can be the eager    *)
(* name of another.                                                        *)
(***************************************************************************)
C1_PascalNameUnique ==
  NoHook =>
    \A i, j \in DOMAIN components :
      i # j => components[i].pascalName # components[j].pascalName

(***************************************************************************)
(* C2: every iteration that neither skips nor drops its file appends       *)
(* exactly two Components with the same filePath, the first with async     *)
(* unset and the second with async = true; an iteration that skips or      *)
(* drops its file appends none.                                            *)
(***************************************************************************)
C2_TwoOrNone ==
  /\ Len(components) = 2 * Cardinality(Iterations("emitted"))
  /\ \A k \in Iterations("emitted") :
       /\ log[k].at = 2 * Cardinality({j \in Iterations("emitted") : j < k})
       /\ EagerOf(k).filePath = LazyOf(k).filePath
       /\ (DirOf(k).extendComponent # "rename" => EagerOf(k).filePath = log[k].file)
       /\ EagerOf(k).async = "undefined"
       /\ LazyOf(k).async = "true"

\* a run in which one file was emitted, one skipped and one dropped
C2_Witness ==
  /\ Iterations("emitted") # {}
  /\ Iterations("skipped") # {}
  /\ Iterations("dropped") # {}

(***************************************************************************)
(* C3: when two directories, one nested inside the other, both match a     *)
(* file, the deeper one is scanned first whatever the order of the input   *)
(* list, the shallower one appends no Component for the file, and the      *)
(* Components the file gets carry the prefix, global flag and hook of the  *)
(* deeper directory.                                                       *)
(***************************************************************************)
\* iterations d and s ran on the same file, d under a directory nested
\* inside the one s ran under
NestedMatch(d, s) ==
  /\ log[d].file = log[s].file
  /\ isUnder(log[d].path, log[s].path)

\* the pair appended by iteration k shows the prefix, the global flag and
\* the hook of the directory k ran under
CarriesConfig(k) ==
  LET dir == DirOf(k)
      renamed == dir.extendComponent = "rename"
      flag == (dir.global \in {"true", "dev"}) # renamed
      lead == (IF renamed THEN <<"X">> ELSE <<>>) \o upperFirst(dir.prefix)
  IN  /\ EagerOf(k).global = flag
      /\ LazyOf(k).global = flag
      /\ startsWith(EagerOf(k).pascalName, lead)
      /\ (dir.prefix = <<>> /\ ~renamed =>
            EagerOf(k).pascalName = pascalCase(log[k].name))
      /\ EagerOf(k).export = (IF renamed THEN "named" ELSE "default")
      /\ EagerOf(k).import.kind =
           (IF dir.extendComponent = "snippets" THEN "customImport" ELSE "require")
      /\ LazyOf(k).import.kind =
           (IF dir.extendComponent = "snippets" THEN "customAsyncImport" ELSE "import")

\* C3: the deeper directory is scanned first, the shallower one appends
\* nothing for a file both match, and the file's pair carries the deeper
\* directory's configuration
C3_DeeperDirectoryWins ==
  \A d, s \in DOMAIN log :
    NestedMatch(d, s) =>
      /\ d < s
      /\ log[s].outcome # "emitted"
      /\ \A k \in Iterations("emitted") :
           log[k].file = log[d].file =>
             /\ ~isUnder(log[d].path, log[k].path)
             /\ CarriesConfig(k)

\* the shallower directory came first in the input, the deeper one carries a
\* prefix, a global flag and a hook, and the file they both matched has its
\* two Components from the deeper one
C3_Witness ==
  \E d, s \in DOMAIN log :
    /\ NestedMatch(d, s)
    /\ Len(input) = 2 /\ input[1].path = log[s].path
    /\ log[d].outcome = "emitted"
    /\ log[s].outcome = "skipped"
    /\ DirOf(d).prefix # <<>> /\ DirOf(d).extendComponent = "rename"
    /\ DirOf(s).prefix = <<>>

(***************************************************************************)
(* C4: each absolute file path is processed by at most one directory: of   *)
(* the iterations that meet a path at most one does not skip it, and the   *)
(* result never holds more than two Components for one filePath.           *)
(***************************************************************************)
C4_OnePairPerPath ==
  /\ \A j, k \in DOMAIN log :
       (log[j].file = log[k].file /\ log[j].outcome # "skipped"
          /\ log[k].outcome # "skipped") => j = k
  /\ \A i \in DOMAIN components :
       Cardinality({j \in DOMAIN components :
                      components[j].filePath = components[i].filePath}) <= 2

\* two directories with the same root both matched a file; it has one pair
C4_Witness ==
  \E j, k \in DOMAIN log :
    /\ j < k
    /\ log[j].file = log[k].file
    /\ log[j].path = log[k].path
    /\ log[j].outcome = "emitted"
    /\ log[k].outcome = "skipped"
    /\ Cardinality({i \in DOMAIN components :
                      components[i].filePath = log[j].file}) = 2

(***************************************************************************)
(* C5: within one directory's scan, when two matched files resolve to the  *)
(* same pascalName the first is kept, and the second is dropped with a     *)
(* warning, however the two names were built.                              *)
(* The code does not keep it: resolvedNames is keyed by componentName      *)
(* before line 82 flattens it, so "FooBar/Baz" and "FooBarBaz" both pass.  *)
(***************************************************************************)
C5_SecondDropped ==
  \A j, k \in DOMAIN log :
    ( /\ j < k
      /\ log[j].dir = log[k].dir
      /\ log[j].outcome = "emitted"
      /\ log[k].outcome # "skipped"
      /\ pascalCase(log[j].name) = pascalCase(log[k].name) )
    => /\ log[k].outcome = "dropped"
       /\ \E w \in DOMAIN warnings :
            /\ warnings[w].filePath = log[k].file
            /\ warnings[w].first = log[j].file

(***************************************************************************)
(* C6: with prefix "app" (no hook) a file that resolves to Header is       *)
(* emitted as AppHeader, and a file whose resolved pascalName already      *)
(* starts with App is emitted with its pascalName unchanged.               *)
(* The code does not keep the second half: line 37 tests                   *)
(* pascalName.startsWith("app"), which no PascalCase name passes, and      *)
(* prepends App again.                                                     *)
(***************************************************************************)
C6_PrefixedOnce ==
  \A k \in Iterations("emitted") :
    (DirOf(k).prefix = <<"a","p","p">> /\ DirOf(k).extendComponent = "none") =>
      LET resolved == pascalCase(log[k].name)
      IN  /\ resolved = <<"H","e","a","d","e","r">> => EagerOf(k).pascalName = <<"A","p","p","H","e","a","d","e","r">>
          /\ startsWith(resolved, <<"A","p","p">>) => EagerOf(k).pascalName = resolved

(***************************************************************************)
(* C7: a file whose base name is index, or whose PascalCased base name is  *)
(* the PascalCased name of its parent directory, is named after its        *)
(* folder.                                                                 *)
(***************************************************************************)
\* PascalCase of the base name of iteration k's file
BaseName(k) == pascalCase(basename(log[k].file, extname(log[k].file)))

\* PascalCase of the name of the folder that holds iteration k's file
FolderName(k) == pascalCase(basename(dirname(log[k].file), <<>>))

\* the folder of iteration k's file, relative to the directory k ran under
FolderPath(k) == relative(log[k].path, dirname(log[k].file))

\* iteration k's file is an index file or is named after its folder
IsFolderFile(k) == BaseName(k) \in {<<"I","n","d","e","x">>, FolderName(k)}

\* C7 as claimed: inside Foo/Bar beneath the scan root the name is Bar
C7_NamedBar ==
  \A k \in Iterations("emitted") :
    (PlainIteration(k) /\ IsFolderFile(k) /\ FolderPath(k) = <<"F","o","o","/","B","a","r">>) =>
      EagerOf(k).pascalName = <<"B","a","r">>

\* C7 as amended: the name is the PascalCase of the folder's path relative
\* to the scan root (pascalCase of pathPrefix): FooBar inside Foo/Bar, and Bar
\* only when Bar lies directly in the scan root
C7_NamedAfterFolderPath ==
  \A k \in Iterations("emitted") :
    (PlainIteration(k) /\ IsFolderFile(k)) =>
      /\ EagerOf(k).pascalName = pascalCase(pascalCase(FolderPath(k)))
      /\ FolderPath(k) = <<"F","o","o","/","B","a","r">> => EagerOf(k).pascalName = <<"F","o","o","B","a","r">>
      /\ FolderPath(k) = <<"B","a","r">> => EagerOf(k).pascalName = <<"B","a","r">>

\* an index file inside Foo/Bar beneath the scan root was emitted
C7_Witness ==
  \E k \in Iterations("emitted") :
    /\ PlainIteration(k)
    /\ BaseName(k) = <<"I","n","d","e","x">>
    /\ FolderPath(k) = <<"F","o","o","/","B","a","r">>

(***************************************************************************)
(* C8: a file whose base name is neither Index nor its folder's name gets  *)
(* the directory-derived prefix prepended unless the base name already     *)
(* starts with that prefix less one trailing "s"; Baz in folder Bar of     *)
(* scan root Foo resolves to BarBaz.                                       *)
(***************************************************************************)
C8_DirectoryContext ==
  \A k \in Iterations("emitted") :
    (PlainIteration(k) /\ ~IsFolderFile(k)) =>
      LET pathPrefix == pascalCase(FolderPath(k))
      IN  /\ ~startsWith(BaseName(k), stripTrailingS(pathPrefix)) =>
               EagerOf(k).pascalName = pascalCase(pathPrefix \o <<"/">> \o BaseName(k))
          /\ startsWith(BaseName(k), stripTrailingS(pathPrefix)) =>
               EagerOf(k).pascalName = pascalCase(BaseName(k))
          /\ (FolderPath(k) = <<"B","a","r">> /\ BaseName(k) = <<"B","a","z">>) =>
               EagerOf(k).pascalName = <<"B","a","r","B","a","z">>
          /\ (FolderPath(k) = <<"F","o","o","s">> /\ BaseName(k) = <<"F","o","o","Q","u","x">>) =>
               EagerOf(k).pascalName = <<"F","o","o","Q","u","x">>

\* Baz in folder Bar of scan root c/Foo was emitted
C8_Witness ==
  \E k \in Iterations("emitted") :
    /\ PlainIteration(k)
    /\ FolderPath(k) = <<"B","a","r">>
    /\ BaseName(k) = <<"B","a","z">>
    /\ EagerOf(k).pascalName = <<"B","a","r","B","a","z">>

(***************************************************************************)
(* C9: the lazy Component's names are the eager Component's names with     *)
(* the lazy marker prepended: "Lazy" to pascalName, "lazy-" to kebabName.  *)
(* The code does not keep it for kebabName: line 38 leaves a kebabName     *)
(* that starts with "lazy" as it is, so LazyHeader.vue gets lazy-header    *)
(* twice.                                                                  *)
(***************************************************************************)
C9_LazyMarkerPrepended ==
  \A k \in Iterations("emitted") :
    /\ LazyOf(k).pascalName = <<"L","a","z","y">> \o EagerOf(k).pascalName
    /\ LazyOf(k).kebabName = <<"l","a","z","y","-">> \o EagerOf(k).kebabName

(***************************************************************************)
(* C10: matcher(tags, components) returns, in the order of tags, for each  *)
(* tag that names a Component (by pascalName or kebabName) the first such  *)
(* Component in components order; a tag that names none adds nothing, so   *)
(* the result is no longer than tags, and matcher(["Header",               *)
(* "missing-tag"], ...) is the one match for Header; tags and components   *)
(* are not modified.                                                       *)
(***************************************************************************)
\* tag names some candidate
Hits(tag) == \E i \in DOMAIN candidates : namedBy(candidates[i], tag)

\* the first candidate tag names
FirstHit(tag) ==
  candidates[CHOOSE i \in DOMAIN candidates :
               /\ namedBy(candidates[i], tag)
               /\ \A j \in 1..(i - 1) : ~namedBy(candidates[j], tag)]

HitTags == SelectSeq(tags, Hits)

\* C10, the result: one Component per tag that names one, the first it names,
\* in the order of tags
C10_Result ==
  pc = "matched" =>
    /\ Len(matches) = Len(HitTags)
    /\ Len(matches) <= Len(tags)
    /\ \A k \in DOMAIN matches : matches[k] = FirstHit(HitTags[k])
    /\ (tags = <<<<"H","e","a","d","e","r">>, <<"m","i","s","s","i","n","g","-","t","a","g">>>> /\ Hits(<<"H","e","a","d","e","r">>)) =>
         matches = <<FirstHit(<<"H","e","a","d","e","r">>)>>

\* C10: the result is as above at every call, and no step modifies tags or
\* components
C10_Matcher ==
  /\ []C10_Result
  /\ [][tags' = tags /\ candidates' = candidates]_vars

\* matcher(["lazy-header", "missing-tag"], ...) returned one Component, the
\* first of two that the tag names
C10_Witness ==
  /\ pc = "matched"
  /\ tags = <<<<"l","a","z","y","-","h","e","a","d","e","r">>, <<"m","i","s","s","i","n","g","-","t","a","g">>>>
  /\ Len(matches) = 1
  /\ \E i, j \in DOMAIN candidates :
       /\ i < j
       /\ candidates[i] # candidates[j]
       /\ namedBy(candidates[i], <<"l","a","z","y","-","h","e","a","d","e","r">>)
       /\ namedBy(candidates[j], <<"l","a","z","y","-","h","e","a","d","e","r">>)
       /\ matches[1] = candidates[i]

(***************************************************************************)
(* C11: a glob lookup or a hook that fails ends the run with that error:   *)
(* the iteration whose hook failed is the last one and appended nothing,   *)
(* a failed run takes no further step, and it never delivers a list.       *)
(***************************************************************************)
\* every iteration that reaches a failing hook fails there
C11_HookFails ==
  \A k \in DOMAIN log :
    (DirOf(k).extendComponent = "throw"
       /\ log[k].outcome \notin {"skipped", "dropped"})
      => /\ log[k].outcome = "threw"
         /\ k = Len(log)
         /\ error = "hook"
         /\ Len(components) = log[k].at

\* a failed run has delivered nothing and stands where it failed
C11_Failed ==
  /\ (error # "none") <=> (pc = "failed")
  /\ error # "none" => returned = <<>>
  /\ error = "glob" => fi = 1 /\ files = <<>> /\ Len(scannedPaths) = di - 1
  /\ \A k \in Iterations("threw") : k = Len(log) /\ error = "hook"

\* C11: failures propagate, and nothing happens after one
C11_FailurePropagates ==
  /\ [](C11_HookFails /\ C11_Failed)
  /\ [][error = "none" /\ error' # "none" => components' = components]_vars
  /\ [][error = "none"]_vars

\* the glob lookup of a later directory failed after Components had been
\* accumulated
C11_Witness ==
  /\ error = "glob"
  /\ components # <<>>
  /\ pc = "failed"
  /\ returned = <<>>

(***************************************************************************)
(* C12: the list is in directory-then-discovery order: the directories are *)
(* taken by descending path depth, those of one depth in their input       *)
(* order; the files of a directory are taken in the glob's order; each     *)
(* emitted file's eager Component is followed at once by its lazy one, and *)
(* the list only ever grows at its end.                                    *)
(***************************************************************************)
\* the directories of ds whose path has n non-empty segments, in ds' order
OfDepth(ds, n) ==
  LET atDepth(d) == pathDepth(d.path) = n
  IN  SelectSeq(ds, atDepth)

\* after line 48: descending depth, input order within one depth
C12_DirectoryOrder ==
  pc # "sort" =>
    /\ Len(dirs) = Len(input)
    /\ \A i, j \in DOMAIN dirs :
         i < j => pathDepth(dirs[i].path) >= pathDepth(dirs[j].path)
    /\ \A i \in DOMAIN input :
         OfDepth(dirs, pathDepth(input[i].path))
           = OfDepth(input, pathDepth(input[i].path))

\* the iterations run directory after directory, and those of the
\* directory being scanned took the glob's files in the glob's order
C12_DiscoveryOrder ==
  /\ \A j, k \in DOMAIN log : j < k => log[j].dir <= log[k].dir
  /\ \A k \in DOMAIN log : log[k].dir <= di /\ log[k].path = dirs[log[k].dir].path
  /\ pc \in {"file", "failed"} /\ di \in DOMAIN dirs =>
       LET inDir(e) == e.dir = di
           cur == SelectSeq(log, inDir)
       IN  /\ Len(cur) = (IF error = "hook" THEN fi ELSE fi - 1)
           /\ \A i \in DOMAIN cur :
                cur[i].file = join(dirs[di].path, files[i])

\* the Components lie in the order of the iterations that appended them,
\* eager then lazy
C12_ComponentOrder ==
  /\ \A j, k \in Iterations("emitted") :
       j < k => log[j].at + 2 <= log[k].at
  /\ \A k \in Iterations("emitted") :
       /\ log[k].at + 2 <= Len(components)
       /\ EagerOf(k).async = "undefined"
       /\ LazyOf(k).async = "true"
       /\ LazyOf(k).filePath = EagerOf(k).filePath
       /\ EagerOf(k).filePath =
            (IF DirOf(k).extendComponent = "rename"
               THEN log[k].file \o <<".", "j", "s">>
               ELSE log[k].file)
  /\ \A n \in DOMAIN components :
       \E k \in Iterations("emitted") : n \in {log[k].at + 1, log[k].at + 2}
  /\ pc = "done" => returned = components

\* C12: directory-then-discovery order
C12_Order ==
  /\ [](C12_DirectoryOrder /\ C12_DiscoveryOrder /\ C12_ComponentOrder)
  /\ [][/\ Len(components') >= Len(components)
         /\ SubSeq(components', 1, Len(components)) = components
         /\ Len(log') >= Len(log)
         /\ SubSeq(log', 1, Len(log)) = log]_vars

\* a returned list with the Components of two directories, the deeper of
\* which the caller gave last
C12_Witness ==
  /\ pc = "done"
  /\ Len(returned) >= 4
  /\ \E j, k \in Iterations("emitted") : log[j].dir < log[k].dir
  /\ \E i, j \in DOMAIN input :
       /\ i < j
       /\ pathDepth(input[i].path) < pathDepth(input[j].path)

(***************************************************************************)
(* C13: every Component of the list, eager or lazy, has a usable           *)
(* asyncImport: the hook's snippet when the hook wrote one, otherwise the  *)
(* default thunk that loads filePath under chunkName; never the empty      *)
(* string.                                                                 *)
(* The code does not keep it: line 110 computes the thunk into a local     *)
(* that only becomes the lazy Component's import (line 120), and both      *)
(* Components keep the asyncImport of _c, '' unless a hook wrote it.        *)
(***************************************************************************)
C13_AsyncImportUsable ==
  \A k \in Iterations("emitted") :
    \A c \in {EagerOf(k), LazyOf(k)} :
      /\ c.asyncImport # EmptySnippet
      /\ c.asyncImport =
           (IF DirOf(k).extendComponent = "snippets"
              THEN CustomSnippet("customAsyncImport")
              ELSE lazyImportSnippet(c))

(***************************************************************************)
(* C14: extendComponent replaces the draft: when the hook returns a        *)
(* Component, the eager Component has every field of the returned record,  *)
(* except that an empty import becomes the require snippet of the returned *)
(* filePath and export; when the hook returns nothing, or there is no      *)
(* hook, the prefixed draft is emitted (its import filled in the same      *)
(* way).                                                                   *)
(***************************************************************************)
\* the prefixed draft iteration k handed to the hook
DraftOf(k) == draftComponent(DirOf(k), srcDir, log[k].file, log[k].name)

\* the names of the fields of a Component other than import
OtherFields ==
  {"filePath", "pascalName", "kebabName", "chunkName", "shortPath",
   "asyncImport", "export", "async", "global"}

\* eager is record r with import defaulted
EmittedFrom(eager, r) ==
  /\ \A f \in OtherFields : eager[f] = r[f]
  /\ eager.import =
       (IF r.import # EmptySnippet
          THEN r.import
          ELSE [kind |-> "require", filePath |-> r.filePath,
                export |-> r.export, chunkName |-> <<>>])

\* C14: every step that appends Components appends, first, the eager
\* Component of what the hook returned for the draft, or of the draft
C14_FullReplacement ==
  [][Len(components') > Len(components) =>
       LET k     == Len(log')
           dir   == dirs'[log'[k].dir]
           draft == draftComponent(dir, srcDir', log'[k].file, log'[k].name)
           eager == components'[Len(components) + 1]
       IN  /\ log'[k].outcome = "emitted"
           /\ log'[k].at = Len(components)
           /\ IF dir.extendComponent \in {"rename", "snippets"}
                THEN EmittedFrom(eager, hookResult(dir.extendComponent, draft))
                ELSE EmittedFrom(eager, draft)]_vars

\* a hook that rewrote the names, the path and the flag, one that wrote its
\* own import, or one that returned nothing, has been applied
C14_Witness ==
  /\ \E k \in Iterations("emitted") :
       /\ DirOf(k).extendComponent = "rename"
       /\ EagerOf(k).pascalName # DraftOf(k).pascalName
       /\ EagerOf(k).filePath # DraftOf(k).filePath
       /\ EagerOf(k).global # DraftOf(k).global
       /\ EagerOf(k).import.kind = "require"
       /\ EagerOf(k).import.filePath = EagerOf(k).filePath

(***************************************************************************)
(* C15: no bookkeeping survives a run: every call starts with an empty     *)
(* list, claimed-path set, scanned-roots list and name map, so two calls   *)
(* on the same directories, answered the same by the glob lookup, settle   *)
(* alike and return equal lists, whether the second call is made after the *)
(* first has settled or while it is awaiting.                              *)
(***************************************************************************)
\* the call with locals l is settled
Settled(l) == l.pc \in {"done", "failed"}

\* two settled calls have the same outcome
C15_SameOutcome ==
  Settled(Locals) /\ Settled(other) =>
    /\ pc = other.pc
    /\ error = other.error
    /\ returned = other.returned
    /\ components = other.components
    /\ warnings = other.warnings

\* C15: calls share no bookkeeping
C15_NoBookkeepingSurvives ==
  /\ []C15_SameOutcome
  /\ [][other.pc = "uncalled" /\ other'.pc # "uncalled" =>
          /\ components' = <<>>
          /\ filePaths' = {}
          /\ scannedPaths' = <<>>
          /\ resolvedNames' = {}]_vars
  /\ [][pc = "glob" /\ pc' # "glob" => resolvedNames' = {}]_vars

\* both calls have returned a list with Components of two directories, the
\* second call having been made while the first awaited, and the first had
\* claimed paths by then or the caller's list was not in scan order
C15_Witness ==
  /\ pc = "done"
  /\ other.pc = "done"
  /\ overlapped
  /\ Len(returned) >= 4
  /\ scannedPaths # <<>>
  /\ warnings # <<>> \/ dirs # input

(***************************************************************************)
(* C16: a file is passed over as already scanned only when it lies inside  *)
(* a directory scanned earlier in the run (or was itself claimed earlier); *)
(* a file of a directory that merely begins like an earlier scanned        *)
(* sibling (c/ui-kit after c/ui) gets its two Components.                  *)
(* The code does not keep it: line 54 compares strings, and                *)
(* 'c/ui-kit/Btn.vue'.startsWith('c/ui') holds.                            *)
(***************************************************************************)
\* filePath lies inside the directory root, or is root
Covers(root, filePath) ==
  LET r == filterBoolean(splitSlash(root))
      f == filterBoolean(splitSlash(filePath))
  IN  Len(r) <= Len(f) /\ SubSeq(f, 1, Len(r)) = r

C16_SkippedOnlyIfCovered ==
  \A k \in Iterations("skipped") :
    \/ \E d \in 1..(log[k].dir - 1) : Covers(dirs[d].path, log[k].file)
    \/ \E j \in 1..(k - 1) :
         /\ log[j].file = log[k].file
         /\ log[j].outcome # "skipped"

(***************************************************************************)
(* C17: without prefix and hook, every emitted Component has a non-empty   *)
(* pascalName and a non-empty kebabName, wherever the file lies under its  *)
(* scan root.                                                              *)
(* The code does not keep it: for an index file or a file named after the  *)
(* root's folder, directly in the root, line 67 takes pathPrefix, which is *)
(* pascalCase(relative(path, path)) = ''.                                  *)
(***************************************************************************)
C17_NamesNonEmpty ==
  \A k \in Iterations("emitted") :
    PlainIteration(k) =>
      \A c \in {EagerOf(k), LazyOf(k)} :
        c.pascalName # <<>> /\ c.kebabName # <<>>

(***************************************************************************)
(* C18: when the call has settled, with a list or with an error, the dirs  *)
(* array of the caller holds the same elements in the same order as before *)
(* the call.                                                               *)
(* The code does not keep it: Array.prototype.sort (line 48) sorts the     *)
(* array it is called on, which is the caller's.                           *)
(***************************************************************************)
C18_InputUnchanged ==
  pc \in {"done", "failed"} => dirs = input

(***************************************************************************)
(* C19: without hooks, at every point of a run the claimed paths           *)
(* (filePaths) are exactly the paths of the files that have Components in  *)
(* the list; the path of a file dropped for a name collision is not        *)
(* claimed.                                                                *)
(* The code does not keep it: line 59 claims the path before the collision *)
(* test of line 72.                                                        *)
(***************************************************************************)
C19_ClaimedIffEmitted ==
  NoHook =>
    /\ filePaths = {components[n].filePath : n \in DOMAIN components}
    /\ \A k \in Iterations("dropped") : log[k].file \notin filePaths

====
